---- MODULE Spec2Model ----
(***************************************************************************)
(* pyplotter: the batch-emitting database scan worker                      *)
(* (pyplotter/sources/workers/loadDataBase.py, loadDataBaseThread.run) and *)
(* the plot mouse-interaction / crosshair handler                          *)
(* (plotter/sources/plot_app.py, PlotApp).                                 *)
(*                                                                         *)
(* The two pieces share no state.  WorkerSpec runs one call of run() as a  *)
(* sequence of steps of the worker thread; PlotSpec runs the GUI event     *)
(* loop on a PlotApp, one action per event handler.                        *)
(***************************************************************************)
EXTENDS Integers, Sequences, FiniteSets, TLC

(***************************************************************************)
(* Bounds of the model.                                                    *)
(***************************************************************************)
\* run ids of the database are drawn from 1..MaxRunId
MaxRunId == 5
\* the accessor returns at most MaxNbRun runs
MaxNbRun == 3
\* config['NbRunEmit'] is drawn from 1..MaxNbRunEmit
MaxNbRunEmit == 3
\* the accessor emits at most MaxProgress progress-bar updates
MaxProgress == 1
\* the x of a pointer position, in view coordinates, is drawn from 0..MaxCoord
MaxCoord == 4
\* the plot holds NbInfiniteLines overlay lines
NbInfiniteLines == 2

VARIABLES
    \* ---- loadDataBaseThread.run ----
    pc,             \* position of the worker thread in run()
    db,             \* what getRunInfos will do when called (the environment)
    NbRunEmit,      \* config['NbRunEmit']
    progressBarKey, \* self.progressBarKey
    runInfos,       \* local runInfos
    nbTotalRun,     \* local nbTotalRun
    it,             \* number of entries the for loop has taken from runInfos.items()
    key,            \* loop variable key
    lists,          \* the list objects created by run(), as groups of eight
    cur,            \* the group the names runId, dim, ... are bound to (0: none yet)
    signals,        \* the signals emitted so far, in emission order
    nbProgress,     \* progress-bar updates the accessor has emitted
    \* ---- PlotApp ----
    vLine,              \* self.vLine: <<>> for None, else <<the line>>
    hLine,              \* self.hLine
    widgetHovered,      \* self.widgetHovered
    displayCrossHair,   \* self.displayCrossHair
    checkBoxCrossHair,  \* self.checkBoxCrossHair.isChecked()
    mousePos,           \* self.mousePos: <<>> until the first mouseMoved, else <<x, y>>
    labelCoordinate,    \* the text of self.labelCoordinate
    cursor,             \* the application's override cursor ("" until one is set)
    items,              \* the crosshair lines added to self.plotItem, by angle
    mouseHovering,      \* line.mouseHovering of each line of self.infiniteLines
    plotType,           \* self.plotType
    timestampXAxis,     \* self.timestampXAxis
    crossHairLineStyle, \* config['crossHairLineStyle']
    plotShrinkActiveArea, \* config['plotShrinkActiveArea']
    xRange,             \* self.plotItem.getAxis('bottom').range
    yRange,             \* self.plotItem.getAxis('left').range
    overView,           \* what isMouseOverView returned to the last mouseMoved
    raised              \* the error the last handler raised ("" when it returned)

workerVars == <<pc, db, NbRunEmit, progressBarKey, runInfos, nbTotalRun, it, key,
                lists, cur, signals, nbProgress>>

plotVars == <<vLine, hLine, widgetHovered, displayCrossHair, checkBoxCrossHair,
              mousePos, labelCoordinate, cursor, items, mouseHovering, plotType,
              timestampXAxis, crossHairLineStyle, plotShrinkActiveArea, xRange, yRange,
              overView, raised>>

vars == <<workerVars, plotVars>>

(***************************************************************************)
(* Values.                                                                 *)
(***************************************************************************)
RunIds == 1..MaxRunId

\* The record the database holds for run id k.  Different ids have different
\* records, so that a lost, duplicated or reordered entry shows in every field.
RunRecord(k) ==
    [nb_independent_parameter |-> IF k % 2 = 1 THEN <<k>> ELSE <<1, k>>,
     experiment_name          |-> "exp" \o ToString(k % 2),
     sample_name              |-> "sample" \o ToString(k % 3),
     run_name                 |-> "run" \o ToString(k),
     started                  |-> "t" \o ToString(k),
     completed                |-> "t" \o ToString(k + 1),
     records                  |-> 10 * k]

\* A dict of runs: its items in iteration order, the keys distinct.
Dicts ==
    { d \in UNION { [1..n -> RunIds] : n \in 0..MaxNbRun } :
        \A i, j \in DOMAIN d : i # j => d[i] # d[j] }

Unset    == [kind |-> "unset", keys |-> <<>>]
None     == [kind |-> "None",  keys |-> <<>>]
Dict(d)  == [kind |-> "dict",  keys |-> d]
Fault    == [kind |-> "fault", keys |-> <<>>]

ProgressBarKeys == {"pb0", "pb1"}

\* '-'.join(str(i) for i in s)
RECURSIVE Join(_)
Join(s) ==
    IF Len(s) = 0 THEN ""
    ELSE IF Len(s) = 1 THEN ToString(s[1])
    ELSE ToString(s[1]) \o "-" \o Join(Tail(s))

\* the eight values appended for one entry
DimOf(val)        == Join(val.nb_independent_parameter) \o "d"
RunRecordsOf(val) == ToString(val.records)

EmptyLists ==
    [runId |-> <<>>, dim |-> <<>>, experimentName |-> <<>>, sampleName |-> <<>>,
     runName |-> <<>>, started |-> <<>>, completed |-> <<>>, runRecords |-> <<>>]

\* the loop body without line 106: nothing is appended to runRecords
AppendEntryNoRecords(l, k, val) ==
    [runId          |-> Append(l.runId, k),
     dim            |-> Append(l.dim, DimOf(val)),
     experimentName |-> Append(l.experimentName, val.experiment_name),
     sampleName     |-> Append(l.sampleName, val.sample_name),
     runName        |-> Append(l.runName, val.run_name),
     started        |-> Append(l.started, val.started),
     completed      |-> Append(l.completed, val.completed),
     runRecords     |-> l.runRecords]

AppendEntry(l, k, val) ==
    [runId          |-> Append(l.runId, k),
     dim            |-> Append(l.dim, DimOf(val)),
     experimentName |-> Append(l.experimentName, val.experiment_name),
     sampleName     |-> Append(l.sampleName, val.sample_name),
     runName        |-> Append(l.runName, val.run_name),
     started        |-> Append(l.started, val.started),
     completed      |-> Append(l.completed, val.completed),
     runRecords     |-> Append(l.runRecords, RunRecordsOf(val))]

\* The signals of loadDataBaseSignal.  An addRows signal carries the list
\* objects themselves (field ref: the group in lists), not copies of them.
SetStatusBarMessage(text, error) ==
    [signal |-> "setStatusBarMessage", text |-> text, flag |-> error,
     n |-> 0, key |-> "", ref |-> 0]
UpdateProgressBar(k, percent) ==
    [signal |-> "updateProgressBar", text |-> "", flag |-> FALSE,
     n |-> percent, key |-> k, ref |-> 0]
AddRows(ref, total, k) ==
    [signal |-> "addRows", text |-> "", flag |-> FALSE,
     n |-> total, key |-> k, ref |-> ref]
UpdateDatabase(k, failed, total) ==
    [signal |-> "updateDatabase", text |-> "", flag |-> failed,
     n |-> total, key |-> k, ref |-> 0]

(***************************************************************************)
(* PlotApp: values.                                                        *)
(***************************************************************************)
\* None, for vLine and hLine
NoLine == <<>>
\* pg.InfiniteLine(angle, movable=False, pen): the line object
InfiniteLine(angle, style) == [angle |-> angle, style |-> style, pos |-> 0]

\* the positions mapSceneToView may return: y is drawn from 0..2
Positions == (0..MaxCoord) \X {0, 1, 2}
InfiniteLines == 1..NbInfiniteLines

PlotTypes  == {"1d", "2d", "3d"}
\* the four styles crossHair knows
LineStyleNames == {"solid", "dashed", "dotted", "dashed-dotted"}
\* config['crossHairLineStyle']: one of them, or another
CrossHairLineStyles == {"dashed", "wavy"}
QtLineStyle(name) ==
    CASE name = "solid"         -> "SolidLine"
      [] name = "dashed"        -> "DashLine"
      [] name = "dotted"        -> "DotLine"
      [] name = "dashed-dotted" -> "DashDotLine"
\* config['plotShrinkActiveArea'], in percent
ShrinkActiveAreas == {0, 25}
\* the ranges an axis may display
XAxisRanges == {<<0, MaxCoord>>, <<1, MaxCoord>>}
YAxisRanges == {<<0, 2>>}

\* self.x, self.y, self.z of a 2d plot
dataX == <<0, 2, 4>>
dataY == <<0, 1, 2>>
dataZ == [n \in 1..3 |-> [m \in 1..3 |-> 3 * (n - 1) + (m - 1) - 4]]

NoError == ""

\* the state of a PlotApp that takes no part in a run of the worker
PlotIdle ==
    /\ vLine = NoLine
    /\ hLine = NoLine
    /\ widgetHovered = FALSE
    /\ displayCrossHair = FALSE
    /\ checkBoxCrossHair = FALSE
    /\ mousePos = <<>>
    /\ labelCoordinate = ""
    /\ cursor = ""
    /\ items = <<>>
    /\ mouseHovering = [l \in InfiniteLines |-> FALSE]
    /\ plotType = "1d"
    /\ timestampXAxis = FALSE
    /\ crossHairLineStyle = "solid"
    /\ plotShrinkActiveArea = 0
    /\ xRange = <<0, MaxCoord>>
    /\ yRange = <<0, 2>>
    /\ overView = FALSE
    /\ raised = NoError

(***************************************************************************)
(* loadDataBaseThread.run, one action per step of the worker thread.       *)
(***************************************************************************)
WorkerInit ==
    /\ pc = "l71"
    /\ db \in {Fault, None} \cup { Dict(d) : d \in Dicts }
    /\ NbRunEmit \in 1..MaxNbRunEmit
    /\ progressBarKey \in ProgressBarKeys
    /\ runInfos = Unset
    /\ nbTotalRun = 0
    /\ it = 0
    /\ key = 0
    /\ lists = <<>>
    /\ cur = 0
    /\ signals = <<>>
    /\ nbProgress = 0
    /\ PlotIdle

\* line 71
EmitGathered ==
    /\ pc = "l71"
    /\ signals' = Append(signals, SetStatusBarMessage("Gathered runs infos database", FALSE))
    /\ pc' = "l72"
    /\ UNCHANGED <<plotVars, db, NbRunEmit, progressBarKey, runInfos, nbTotalRun, it, key,
                   lists, cur, nbProgress>>

\* line 72, inside the call: the accessor reports progress through the
\* updateProgressBar signal it was handed
AccessorProgress ==
    /\ pc = "l72"
    /\ nbProgress < MaxProgress
    /\ nbProgress' = nbProgress + 1
    /\ signals' = Append(signals, UpdateProgressBar(progressBarKey, 100))
    /\ UNCHANGED <<plotVars, pc, db, NbRunEmit, progressBarKey, runInfos, nbTotalRun, it, key,
                   lists, cur>>

\* line 72, the call returns a dict or None
GetRunInfosReturns ==
    /\ pc = "l72"
    /\ db.kind # "fault"
    /\ runInfos' = db
    /\ pc' = "l75"
    /\ UNCHANGED <<plotVars, db, NbRunEmit, progressBarKey, nbTotalRun, it, key,
                   lists, cur, signals, nbProgress>>

\* run() catching the fault of the accessor and going on as if it had returned None
GetRunInfosFaultsCaught ==
    /\ pc = "l72"
    /\ db.kind = "fault"
    /\ runInfos' = None
    /\ pc' = "l75"
    /\ UNCHANGED <<plotVars, db, NbRunEmit, progressBarKey, nbTotalRun, it, key,
                   lists, cur, signals, nbProgress>>

\* line 72, the call raises: nothing in run() catches it
GetRunInfosFaults ==
    /\ pc = "l72"
    /\ db.kind = "fault"
    /\ pc' = "raised"
    /\ UNCHANGED <<plotVars, db, NbRunEmit, progressBarKey, runInfos, nbTotalRun, it, key,
                   lists, cur, signals, nbProgress>>

\* DatabaseEmpty with the message not flagged as an error
DatabaseEmptyNotError ==
    /\ pc = "l75"
    /\ runInfos.kind = "None"
    /\ signals' = Append(signals, SetStatusBarMessage("Database empty", FALSE))
    /\ pc' = "l77"
    /\ UNCHANGED <<plotVars, db, NbRunEmit, progressBarKey, runInfos, nbTotalRun, it, key,
                   lists, cur, nbProgress>>

\* lines 75-76
DatabaseEmpty ==
    /\ pc = "l75"
    /\ runInfos.kind = "None"
    /\ signals' = Append(signals, SetStatusBarMessage("Database empty", TRUE))
    /\ pc' = "l77"
    /\ UNCHANGED <<plotVars, db, NbRunEmit, progressBarKey, runInfos, nbTotalRun, it, key,
                   lists, cur, nbProgress>>

\* line 77
WaitMessage ==
    /\ pc = "l77"
    /\ pc' = "l78"
    /\ UNCHANGED <<plotVars, db, NbRunEmit, progressBarKey, runInfos, nbTotalRun, it, key,
                   lists, cur, signals, nbProgress>>

\* lines 78-79
UpdateDatabaseEmpty ==
    /\ pc = "l78"
    /\ signals' = Append(signals, UpdateDatabase(progressBarKey, FALSE, 0))
    /\ pc' = "done"
    /\ UNCHANGED <<plotVars, db, NbRunEmit, progressBarKey, runInfos, nbTotalRun, it, key,
                   lists, cur, nbProgress>>

\* lines 75, 82-83
LoadingDatabase ==
    /\ pc = "l75"
    /\ runInfos.kind # "None"
    /\ signals' = Append(signals, SetStatusBarMessage("Loading database", FALSE))
    /\ nbTotalRun' = Len(runInfos.keys)
    /\ pc' = "l89"
    /\ UNCHANGED <<plotVars, db, NbRunEmit, progressBarKey, runInfos, it, key,
                   lists, cur, nbProgress>>

\* lines 89-96
NewLists ==
    /\ pc = "l89"
    /\ lists' = Append(lists, EmptyLists)
    /\ cur' = Len(lists) + 1
    /\ pc' = "l97"
    /\ UNCHANGED <<plotVars, db, NbRunEmit, progressBarKey, runInfos, nbTotalRun, it, key,
                   signals, nbProgress>>

\* lines 97-106: the loop takes the next entry and appends its eight values
LoopAppend ==
    /\ pc = "l97"
    /\ it < Len(runInfos.keys)
    /\ it' = it + 1
    /\ key' = runInfos.keys[it + 1]
    /\ lists' = [lists EXCEPT ![cur] = AppendEntry(@, key', RunRecord(key'))]
    /\ pc' = "l109"
    /\ UNCHANGED <<plotVars, db, NbRunEmit, progressBarKey, runInfos, nbTotalRun,
                   cur, signals, nbProgress>>

\* the condition of line 109 taken on the number of buffered entries instead
EnoughDataByLength == Len(lists[cur].runId) = NbRunEmit

\* line 109
EnoughData == key % NbRunEmit = 0

\* LoopEmit without lines 121-128: the names stay bound to the emitted lists
LoopEmitKeepsLists ==
    /\ pc = "l109"
    /\ EnoughData
    /\ signals' = Append(signals, AddRows(cur, nbTotalRun, progressBarKey))
    /\ pc' = "l97"
    /\ UNCHANGED <<plotVars, db, NbRunEmit, progressBarKey, runInfos, nbTotalRun, it, key,
                   lists, cur, nbProgress>>

\* LoopEmit emptying the emitted lists in place (runId.clear(), ...) instead of
\* binding the names to new lists
LoopEmitClearsLists ==
    /\ pc = "l109"
    /\ EnoughData
    /\ signals' = Append(signals, AddRows(cur, nbTotalRun, progressBarKey))
    /\ lists' = [lists EXCEPT ![cur] = EmptyLists]
    /\ pc' = "l97"
    /\ UNCHANGED <<plotVars, db, NbRunEmit, progressBarKey, runInfos, nbTotalRun, it, key,
                   cur, nbProgress>>

\* lines 109-128: emit the lists and bind the names to new, empty ones
LoopEmit ==
    /\ pc = "l109"
    /\ EnoughData
    /\ signals' = Append(signals, AddRows(cur, nbTotalRun, progressBarKey))
    /\ lists' = Append(lists, EmptyLists)
    /\ cur' = Len(lists) + 1
    /\ pc' = "l97"
    /\ UNCHANGED <<plotVars, db, NbRunEmit, progressBarKey, runInfos, nbTotalRun, it, key,
                   nbProgress>>

\* line 109, the condition is false
LoopNoEmit ==
    /\ pc = "l109"
    /\ ~EnoughData
    /\ pc' = "l97"
    /\ UNCHANGED <<plotVars, db, NbRunEmit, progressBarKey, runInfos, nbTotalRun, it, key,
                   lists, cur, signals, nbProgress>>

\* line 97, runInfos.items() is exhausted
LoopExit ==
    /\ pc = "l97"
    /\ it = Len(runInfos.keys)
    /\ pc' = "l131"
    /\ UNCHANGED <<plotVars, db, NbRunEmit, progressBarKey, runInfos, nbTotalRun, it, key,
                   lists, cur, signals, nbProgress>>

\* FinalEmit without the test of line 131
FinalEmitAlways ==
    /\ pc = "l131"
    /\ signals' = Append(signals, AddRows(cur, nbTotalRun, progressBarKey))
    /\ pc' = "l144"
    /\ UNCHANGED <<plotVars, db, NbRunEmit, progressBarKey, runInfos, nbTotalRun, it, key,
                   lists, cur, nbProgress>>

\* lines 131-141
FinalEmit ==
    /\ pc = "l131"
    /\ signals' = IF Len(lists[cur].runId) # 0
                  THEN Append(signals, AddRows(cur, nbTotalRun, progressBarKey))
                  ELSE signals
    /\ pc' = "l144"
    /\ UNCHANGED <<plotVars, db, NbRunEmit, progressBarKey, runInfos, nbTotalRun, it, key,
                   lists, cur, nbProgress>>

\* UpdateDatabaseDone sending len(runId), the records not yet emitted, as the total
UpdateDatabaseLeftover ==
    /\ pc = "l144"
    /\ signals' = Append(signals, UpdateDatabase(progressBarKey, FALSE, Len(lists[cur].runId)))
    /\ pc' = "done"
    /\ UNCHANGED <<plotVars, db, NbRunEmit, progressBarKey, runInfos, nbTotalRun, it, key,
                   lists, cur, nbProgress>>

\* line 144
UpdateDatabaseDone ==
    /\ pc = "l144"
    /\ signals' = Append(signals, UpdateDatabase(progressBarKey, FALSE, nbTotalRun))
    /\ pc' = "done"
    /\ UNCHANGED <<plotVars, db, NbRunEmit, progressBarKey, runInfos, nbTotalRun, it, key,
                   lists, cur, nbProgress>>

WorkerNext ==
    \/ EmitGathered
    \/ AccessorProgress
    \/ GetRunInfosReturns
    \/ GetRunInfosFaults
    \/ DatabaseEmpty
    \/ WaitMessage
    \/ UpdateDatabaseEmpty
    \/ LoadingDatabase
    \/ NewLists
    \/ LoopAppend
    \/ LoopEmit
    \/ LoopNoEmit
    \/ LoopExit
    \/ FinalEmit
    \/ UpdateDatabaseDone

WorkerSpec == WorkerInit /\ [][WorkerNext]_vars

\* The worker is a QRunnable on a thread of the pool: once started it is
\* scheduled until run() returns or raises.
WorkerFairSpec == WorkerSpec /\ WF_vars(WorkerNext)

(***************************************************************************)
(* PlotApp: the handlers the GUI event loop calls, one action per handler. *)
(***************************************************************************)
\* the worker's variables while no run takes place
WorkerIdle ==
    /\ pc = "idle"
    /\ db = None
    /\ NbRunEmit = 1
    /\ progressBarKey = "pb0"
    /\ runInfos = Unset
    /\ nbTotalRun = 0
    /\ it = 0
    /\ key = 0
    /\ lists = <<>>
    /\ cur = 0
    /\ signals = <<>>
    /\ nbProgress = 0

\* PlotApp.__init__, lines 20-32, for every configuration of the plot.
\* self.timestampXAxis is read for 1d plots only (line 158).
PlotInit ==
    /\ vLine = NoLine
    /\ hLine = NoLine
    /\ widgetHovered = FALSE
    /\ displayCrossHair = FALSE
    /\ checkBoxCrossHair = FALSE
    /\ mousePos = <<>>
    /\ labelCoordinate = ""
    /\ cursor = ""
    /\ items = <<>>
    /\ mouseHovering = [l \in InfiniteLines |-> FALSE]
    /\ plotType \in PlotTypes
    /\ timestampXAxis \in (IF plotType = "1d" THEN BOOLEAN ELSE {FALSE})
    /\ crossHairLineStyle \in CrossHairLineStyles
    /\ plotShrinkActiveArea \in ShrinkActiveAreas
    /\ xRange \in XAxisRanges
    /\ yRange \in YAxisRanges
    /\ overView = FALSE
    /\ raised = NoError
    /\ WorkerIdle

\* the parts of the state no handler writes
plotConfig == <<plotType, timestampXAxis, crossHairLineStyle, plotShrinkActiveArea,
                xRange, yRange>>

\* lines 40-51
eventFilter(event) ==
    /\ widgetHovered' = IF event = "Enter" THEN TRUE
                        ELSE IF event = "Leave" THEN FALSE
                        ELSE widgetHovered
    /\ raised' = NoError
    /\ UNCHANGED <<vLine, hLine, displayCrossHair, checkBoxCrossHair, mousePos,
                   labelCoordinate, cursor, items, mouseHovering, overView,
                   plotConfig, workerVars>>

EventTypes == {"Enter", "Leave", "FocusIn"}

\* checkBoxCrossHairState redrawing at once: it removes a crosshair that is shown
checkBoxCrossHairStateRedraws ==
    /\ checkBoxCrossHair' = ~checkBoxCrossHair
    /\ displayCrossHair' = checkBoxCrossHair'
    /\ vLine' = IF checkBoxCrossHair' THEN vLine ELSE NoLine
    /\ hLine' = IF checkBoxCrossHair' THEN hLine ELSE NoLine
    /\ items' = IF checkBoxCrossHair' THEN items ELSE <<>>
    /\ raised' = NoError
    /\ UNCHANGED <<widgetHovered, mousePos, labelCoordinate, cursor,
                   mouseHovering, overView, plotConfig, workerVars>>

\* lines 55-65, with the click that makes the check box emit stateChanged
checkBoxCrossHairState ==
    /\ checkBoxCrossHair' = ~checkBoxCrossHair
    /\ displayCrossHair' = IF checkBoxCrossHair' THEN TRUE ELSE FALSE
    /\ raised' = NoError
    /\ UNCHANGED <<vLine, hLine, widgetHovered, mousePos, labelCoordinate, cursor,
                   items, mouseHovering, overView, plotConfig, workerVars>>

\* isMouseOverView with the bounds of the active area included
isMouseOverViewInclusive ==
    LET dx100 == (xRange[2] - xRange[1]) * plotShrinkActiveArea
        dy100 == (yRange[2] - yRange[1]) * plotShrinkActiveArea
    IN  /\ 100 * mousePos[1] >= 100 * xRange[1] + dx100
        /\ 100 * mousePos[1] <= 100 * xRange[2] - dx100
        /\ 100 * mousePos[2] >= 100 * yRange[1] + dy100
        /\ 100 * mousePos[2] <= 100 * yRange[2] - dy100
        /\ widgetHovered

\* lines 69-84.  dx and dy are kept multiplied by 100, so that the comparisons
\* are exact on integers.
isMouseOverView ==
    LET dx100 == (xRange[2] - xRange[1]) * plotShrinkActiveArea
        dy100 == (yRange[2] - yRange[1]) * plotShrinkActiveArea
    IN  /\ 100 * mousePos[1] > 100 * xRange[1] + dx100
        /\ 100 * mousePos[1] < 100 * xRange[2] - dx100
        /\ 100 * mousePos[2] > 100 * yRange[1] + dy100
        /\ 100 * mousePos[2] < 100 * yRange[2] - dy100
        /\ widgetHovered

Abs(v) == IF v < 0 THEN -v ELSE v

\* argmin returning the last of several nearest samples
ArgMinLast(a, v) ==
    (CHOOSE i \in DOMAIN a :
        /\ \A j \in DOMAIN a : Abs(a[i] - v) <= Abs(a[j] - v)
        /\ \A j \in DOMAIN a : j > i => Abs(a[j] - v) > Abs(a[i] - v)) - 1

\* np.abs(a - v).argmin(): the first index, from 0, of the sample nearest to v
ArgMin(a, v) ==
    (CHOOSE i \in DOMAIN a :
        /\ \A j \in DOMAIN a : Abs(a[i] - v) <= Abs(a[j] - v)
        /\ \A j \in DOMAIN a : j < i => Abs(a[j] - v) > Abs(a[i] - v)) - 1

\* '{:.{nbDecimal}e}'.format(v): the digits of v
FormatE(v) == ToString(v)
\* lines 148-153, 169-171
Space(v) == IF v > 0 THEN "&nbsp;" ELSE ""

\* setMouseCoordinateError taking every plot type that is not '1d' for '2d'
setMouseCoordinateErrorLenient(pos) ==
    IF plotType = "1d" THEN
        IF timestampXAxis THEN "ValueError: Unknown format code" ELSE NoError
    ELSE NoError

\* lines 156-175: the error setMouseCoordinate(blank=False) raises at pos, if any.
\* With timestampXAxis the format of line 160 applies '.{nbDecimal}e' to the
\* string spaceY, which str.format refuses.
setMouseCoordinateError(pos) ==
    IF plotType = "1d" THEN
        IF timestampXAxis THEN "ValueError: Unknown format code" ELSE NoError
    ELSE IF plotType = "2d" THEN NoError
    ELSE "ValueError: plotType unknown"

\* lines 156-173: the text setMouseCoordinate(blank=False) displays at pos
setMouseCoordinateText(pos) ==
    IF plotType = "1d" THEN
        "x: " \o Space(pos[1]) \o FormatE(pos[1]) \o
        "<br/>y: " \o Space(pos[2]) \o FormatE(pos[2])
    ELSE
        LET n  == ArgMin(dataX, pos[1])
            m  == ArgMin(dataY, pos[2])
            zv == dataZ[n + 1][m + 1]
        IN  "x: " \o Space(pos[1]) \o FormatE(pos[1]) \o
            "<br/>y: " \o Space(pos[2]) \o FormatE(pos[2]) \o
            "<br/>z: " \o Space(zv) \o FormatE(zv)

\* lines 190-192: at least one line of self.infiniteLines is hovered
Hovering == \E l \in InfiniteLines : mouseHovering[l]

\* infiniteLineHovering asking that every line be hovered
infiniteLineHoveringAll ==
    IF \A l \in InfiniteLines : mouseHovering[l] THEN "PointingHandCursor" ELSE "ArrowCursor"

\* lines 179-195: the cursor infiniteLineHovering sets
infiniteLineHovering == IF Hovering THEN "PointingHandCursor" ELSE "ArrowCursor"

\* items without its first line of the given angle (plotItem.removeItem)
RemoveItem(its, angle) ==
    IF \E i \in DOMAIN its : its[i] = angle
    THEN LET i == CHOOSE i \in DOMAIN its :
                    its[i] = angle /\ \A j \in DOMAIN its : j < i => its[j] # angle
         IN  SubSeq(its, 1, i - 1) \o SubSeq(its, i + 1, Len(its))
    ELSE its

\* crossHair taking the overlay lines into account on every plot type
crossHairAnyPlotType(remove, cursorNow) ==
    LET rm == remove \/ Hovering
    IN  IF ~rm /\ vLine = NoLine THEN
            IF crossHairLineStyle \in LineStyleNames THEN
                /\ vLine' = <<InfiniteLine(90, QtLineStyle(crossHairLineStyle))>>
                /\ hLine' = <<InfiniteLine(0, QtLineStyle(crossHairLineStyle))>>
                /\ items' = Append(Append(items, 90), 0)
                /\ cursor' = "BlankCursor"
                /\ raised' = NoError
            ELSE
                /\ raised' = "ValueError: crossHairLineStyle"
                /\ cursor' = cursorNow
                /\ UNCHANGED <<vLine, hLine, items>>
        ELSE IF rm /\ vLine # NoLine THEN
            /\ items' = RemoveItem(RemoveItem(items, vLine[1].angle), hLine[1].angle)
            /\ vLine' = NoLine
            /\ hLine' = NoLine
            /\ cursor' = "ArrowCursor"
            /\ raised' = NoError
        ELSE IF vLine # NoLine THEN
            /\ vLine' = <<[vLine[1] EXCEPT !.pos = mousePos'[1]]>>
            /\ hLine' = <<[hLine[1] EXCEPT !.pos = mousePos'[2]]>>
            /\ cursor' = cursorNow
            /\ raised' = NoError
            /\ UNCHANGED items
        ELSE
            /\ cursor' = cursorNow
            /\ raised' = NoError
            /\ UNCHANGED <<vLine, hLine, items>>

\* crossHair drawing solid lines when it does not know the configured style
crossHairDefaultStyle(remove, cursorNow) ==
    LET rm == remove \/ (plotType = "2d" /\ Hovering)
        lineStyle == IF crossHairLineStyle \in LineStyleNames
                     THEN QtLineStyle(crossHairLineStyle) ELSE "SolidLine"
    IN  IF ~rm /\ vLine = NoLine THEN
            /\ vLine' = <<InfiniteLine(90, lineStyle)>>
            /\ hLine' = <<InfiniteLine(0, lineStyle)>>
            /\ items' = Append(Append(items, 90), 0)
            /\ cursor' = "BlankCursor"
            /\ raised' = NoError
        ELSE IF rm /\ vLine # NoLine THEN
            /\ items' = RemoveItem(RemoveItem(items, vLine[1].angle), hLine[1].angle)
            /\ vLine' = NoLine
            /\ hLine' = NoLine
            /\ cursor' = "ArrowCursor"
            /\ raised' = NoError
        ELSE IF vLine # NoLine THEN
            /\ vLine' = <<[vLine[1] EXCEPT !.pos = mousePos'[1]]>>
            /\ hLine' = <<[hLine[1] EXCEPT !.pos = mousePos'[2]]>>
            /\ cursor' = cursorNow
            /\ raised' = NoError
            /\ UNCHANGED items
        ELSE
            /\ cursor' = cursorNow
            /\ raised' = NoError
            /\ UNCHANGED <<vLine, hLine, items>>

\* crossHair creating the lines on every call without remove, whether or not
\* self.vLine is None
crossHairAlwaysCreates(remove, cursorNow) ==
    LET rm == remove \/ (plotType = "2d" /\ Hovering)
    IN  IF ~rm THEN
            IF crossHairLineStyle \in LineStyleNames THEN
                /\ vLine' = <<InfiniteLine(90, QtLineStyle(crossHairLineStyle))>>
                /\ hLine' = <<InfiniteLine(0, QtLineStyle(crossHairLineStyle))>>
                /\ items' = Append(Append(items, 90), 0)
                /\ cursor' = "BlankCursor"
                /\ raised' = NoError
            ELSE
                /\ raised' = "ValueError: crossHairLineStyle"
                /\ cursor' = cursorNow
                /\ UNCHANGED <<vLine, hLine, items>>
        ELSE IF vLine # NoLine THEN
            /\ items' = RemoveItem(RemoveItem(items, vLine[1].angle), hLine[1].angle)
            /\ vLine' = NoLine
            /\ hLine' = NoLine
            /\ cursor' = "ArrowCursor"
            /\ raised' = NoError
        ELSE
            /\ cursor' = cursorNow
            /\ raised' = NoError
            /\ UNCHANGED <<vLine, hLine, items>>

\* lines 199-263, called from mouseMoved after self.mousePos is set and while
\* the override cursor is cursorNow
crossHair(remove, cursorNow) ==
    LET rm == remove \/ (plotType = "2d" /\ Hovering)
    IN  IF ~rm /\ vLine = NoLine THEN
            IF crossHairLineStyle \in LineStyleNames THEN
                /\ vLine' = <<InfiniteLine(90, QtLineStyle(crossHairLineStyle))>>
                /\ hLine' = <<InfiniteLine(0, QtLineStyle(crossHairLineStyle))>>
                /\ items' = Append(Append(items, 90), 0)
                /\ cursor' = "BlankCursor"
                /\ raised' = NoError
            ELSE
                /\ raised' = "ValueError: crossHairLineStyle"
                /\ cursor' = cursorNow
                /\ UNCHANGED <<vLine, hLine, items>>
        ELSE IF rm /\ vLine # NoLine THEN
            /\ items' = RemoveItem(RemoveItem(items, vLine[1].angle), hLine[1].angle)
            /\ vLine' = NoLine
            /\ hLine' = NoLine
            /\ cursor' = "ArrowCursor"
            /\ raised' = NoError
        ELSE IF vLine # NoLine THEN
            /\ vLine' = <<[vLine[1] EXCEPT !.pos = mousePos'[1]]>>
            /\ hLine' = <<[hLine[1] EXCEPT !.pos = mousePos'[2]]>>
            /\ cursor' = cursorNow
            /\ raised' = NoError
            /\ UNCHANGED items
        ELSE
            /\ cursor' = cursorNow
            /\ raised' = NoError
            /\ UNCHANGED <<vLine, hLine, items>>

\* lines 88-125.  pos is the position mapSceneToView returns, in view coordinates.
mouseMoved(pos) ==
    /\ mousePos' = pos
    /\ UNCHANGED <<widgetHovered, displayCrossHair, checkBoxCrossHair, mouseHovering,
                   plotConfig, workerVars>>
    /\ overView' = isMouseOverView'
    /\ IF isMouseOverView' THEN
            IF setMouseCoordinateError(pos) # NoError THEN
                /\ raised' = setMouseCoordinateError(pos)
                /\ UNCHANGED <<labelCoordinate, cursor, vLine, hLine, items>>
            ELSE
                /\ labelCoordinate' = setMouseCoordinateText(pos)
                /\ IF displayCrossHair
                   THEN crossHair(FALSE, infiniteLineHovering)
                   ELSE /\ cursor' = infiniteLineHovering
                        /\ raised' = NoError
                        /\ UNCHANGED <<vLine, hLine, items>>
       ELSE
            /\ labelCoordinate' = ""
            /\ IF displayCrossHair
               THEN crossHair(TRUE, cursor)
               ELSE /\ raised' = NoError
                    /\ UNCHANGED <<cursor, vLine, hLine, items>>

\* an overlay line's hoverEvent: the pointer comes over the line or leaves it
hoverEvent(l) ==
    /\ mouseHovering' = [mouseHovering EXCEPT ![l] = ~@]
    /\ raised' = NoError
    /\ UNCHANGED <<vLine, hLine, widgetHovered, displayCrossHair, checkBoxCrossHair,
                   mousePos, labelCoordinate, cursor, items, overView,
                   plotConfig, workerVars>>

PlotNext ==
    \/ \E event \in EventTypes : eventFilter(event)
    \/ checkBoxCrossHairState
    \/ \E pos \in Positions : mouseMoved(pos)
    \/ \E l \in InfiniteLines : hoverEvent(l)

PlotSpec == PlotInit /\ [][PlotNext]_vars

(***************************************************************************)
(* What one run of the worker has emitted.                                 *)
(***************************************************************************)
SignalsNamed(name) == SelectSeq(signals, LAMBDA s : s.signal = name)
Batches            == SignalsNamed("addRows")
StatusMessages     == SignalsNamed("setStatusBarMessage")
ScanCompletes      == SignalsNamed("updateDatabase")

\* K: the size of the mapping the accessor returned (0 for None)
K == Len(runInfos.keys)

CeilDiv(a, b) == (a + b - 1) \div b

Fields == {"runId", "dim", "experimentName", "sampleName", "runName",
           "started", "completed", "runRecords"}

\* the eight values the mapping holds for run id k, by field
EntryFields(k) ==
    [runId          |-> k,
     dim            |-> DimOf(RunRecord(k)),
     experimentName |-> RunRecord(k).experiment_name,
     sampleName     |-> RunRecord(k).sample_name,
     runName        |-> RunRecord(k).run_name,
     started        |-> RunRecord(k).started,
     completed      |-> RunRecord(k).completed,
     runRecords     |-> RunRecordsOf(RunRecord(k))]

\* field f of the batches b, concatenated in emission order, as the receiver
\* reads them from the list objects it was sent
RECURSIVE ConcatField(_, _)
ConcatField(b, f) ==
    IF Len(b) = 0 THEN <<>>
    ELSE lists[b[1].ref][f] \o ConcatField(Tail(b), f)

(***************************************************************************)
(* C2.  For every mapping of K >= 1 run ids and every batch size B >= 1, a *)
(* finished run has emitted exactly ceil(K/B) addRows signals.             *)
(***************************************************************************)
BatchCountIsCeil ==
    (pc = "done" /\ runInfos.kind = "dict" /\ K >= 1)
        => Len(Batches) = CeilDiv(K, NbRunEmit)

(***************************************************************************)
(* C3.  When the run is over, each of the eight fields of the addRows      *)
(* signals, concatenated in emission order, is that field of the mapping's *)
(* entries in iteration order: nothing lost, duplicated or reordered.      *)
(***************************************************************************)
BatchesConcatenateToMapping ==
    (pc = "done" /\ runInfos.kind = "dict")
        => \A f \in Fields :
              ConcatField(Batches, f) = [i \in 1..K |-> EntryFields(runInfos.keys[i])[f]]

BatchesConcatenateWitness ==
    /\ pc = "done"
    /\ K = 3
    /\ Len(Batches) = 2
    /\ Len(lists[Batches[1].ref].runId) = 2

(***************************************************************************)
(* C4.  Once the accessor has returned, the run reaches its end; there,    *)
(* updateDatabase has been emitted exactly once, it is the last signal,    *)
(* and it carries the caller's progressBarKey and the total K.  It is      *)
(* never emitted twice.                                                    *)
(***************************************************************************)
ScanCompleteLast ==
    /\ [](Len(ScanCompletes) <= 1)
    /\ [](pc = "done" =>
            /\ Len(ScanCompletes) = 1
            /\ signals[Len(signals)] = UpdateDatabase(progressBarKey, FALSE, K))
    /\ (runInfos.kind # "unset") ~> (pc = "done")

ScanCompleteWitness ==
    /\ pc = "done"
    /\ K = 3
    /\ Len(Batches) >= 1
    /\ signals[Len(signals)].signal = "updateDatabase"
    /\ signals[Len(signals)].n = 3

(***************************************************************************)
(* C5.  At every point of the run the lists being filled hold at most      *)
(* NbRunEmit records.                                                      *)
(***************************************************************************)
BufferAtMostBatchSize ==
    cur # 0 => Len(lists[cur].runId) <= NbRunEmit

(***************************************************************************)
(* C6.  When the accessor returns None the run does not raise and emits no *)
(* addRows; at its end it has emitted 'Database empty' flagged as an error *)
(* and then, as its last signal, updateDatabase with total 0.              *)
(***************************************************************************)
AbsentResultReported ==
    runInfos.kind = "None" =>
        /\ pc # "raised"
        /\ Len(Batches) = 0
        /\ pc = "done" =>
            /\ Len(signals) >= 2
            /\ signals[Len(signals) - 1] = SetStatusBarMessage("Database empty", TRUE)
            /\ signals[Len(signals)] = UpdateDatabase(progressBarKey, FALSE, 0)
            /\ Len(ScanCompletes) = 1

AbsentResultWitness ==
    /\ pc = "done"
    /\ runInfos.kind = "None"
    /\ Len(signals) >= 3

(***************************************************************************)
(* C7.  When the accessor returns an empty mapping, the finished run has   *)
(* emitted exactly one status message, exactly one updateDatabase with     *)
(* total 0, and no addRows.                                                *)
(***************************************************************************)
EmptyMappingOneStatus ==
    (pc = "done" /\ runInfos = Dict(<<>>)) =>
        /\ Len(StatusMessages) = 1
        /\ ScanCompletes = <<UpdateDatabase(progressBarKey, FALSE, 0)>>
        /\ Len(Batches) = 0

\* C7, amended: the status messages are two, 'Gathered runs infos database'
\* and 'Loading database', neither flagged as an error.
EmptyMappingTwoStatus ==
    (pc = "done" /\ runInfos = Dict(<<>>)) =>
        /\ StatusMessages = <<SetStatusBarMessage("Gathered runs infos database", FALSE),
                              SetStatusBarMessage("Loading database", FALSE)>>
        /\ ScanCompletes = <<UpdateDatabase(progressBarKey, FALSE, 0)>>
        /\ Len(Batches) = 0

EmptyMappingWitness ==
    /\ pc = "done"
    /\ runInfos = Dict(<<>>)
    /\ Len(lists) = 1

(***************************************************************************)
(* The crosshair and the pointer, as the claims speak of them.             *)
(***************************************************************************)
CrossHairExists == vLine # NoLine /\ hLine # NoLine

\* the pointer is over the interactive region
PointerOverRegion == mousePos # <<>> /\ isMouseOverView

\* the step is a pointer-move event
IsMouseMoved == \E pos \in Positions : mouseMoved(pos)

\* pos lies strictly inside the axis ranges shrunk by p percent on each side:
\* x0 + dx < x < x1 - dx and y0 + dy < y < y1 - dy, with dx = (x1 - x0) * p / 100
\* and dy = (y1 - y0) * p / 100, every term multiplied by 100
InsideShrunkRanges(pos) ==
    LET p  == plotShrinkActiveArea
        x0 == xRange[1]
        x1 == xRange[2]
        y0 == yRange[1]
        y1 == yRange[2]
    IN  /\ 100 * x0 + (x1 - x0) * p < 100 * pos[1]
        /\ 100 * pos[1] < 100 * x1 - (x1 - x0) * p
        /\ 100 * y0 + (y1 - y0) * p < 100 * pos[2]
        /\ 100 * pos[2] < 100 * y1 - (y1 - y0) * p

OverViewIffInsideAndHovered ==
    [][ \A pos \in Positions :
            mouseMoved(pos) => (overView' <=> (InsideShrunkRanges(pos) /\ widgetHovered)) ]_vars

OverViewWitness ==
    /\ overView
    /\ widgetHovered
    /\ plotShrinkActiveArea = 25
    /\ mousePos = <<2, 1>>

(***************************************************************************)
(* C9.  A pointer-move whose position is not over the view leaves no       *)
(* crosshair lines, whatever the value of displayCrossHair.                *)
(***************************************************************************)
NotOverViewRemovesCrossHair ==
    [][ (IsMouseMoved /\ ~isMouseOverView') => (vLine' = NoLine /\ hLine' = NoLine) ]_vars

(***************************************************************************)
(* C10.  Toggling the check box sets displayCrossHair to its checked state *)
(* and leaves the lines, the items of the plot, the cursor, the stored     *)
(* position and the coordinate label as they are.                          *)
(***************************************************************************)
ToggleOnlySetsFlag ==
    [][ checkBoxCrossHair' # checkBoxCrossHair =>
            /\ displayCrossHair' = checkBoxCrossHair'
            /\ UNCHANGED <<vLine, hLine, items, cursor, mousePos, labelCoordinate>> ]_vars

ToggleWitness ==
    /\ ~checkBoxCrossHair
    /\ ~displayCrossHair
    /\ CrossHairExists
    /\ items = <<90, 0>>
    /\ cursor = "BlankCursor"

UnknownPlotTypeAlwaysRaises ==
    [][ (IsMouseMoved /\ plotType \notin {"1d", "2d"}) =>
            /\ raised' = "ValueError: plotType unknown"
            /\ UNCHANGED <<vLine, hLine, cursor>> ]_vars

\* C12, amended.  With such a plot type a pointer-move over the view fails
\* with ValueError 'plotType unknown' and leaves the label as it was; one
\* that is not over the view returns without error and blanks the label.
\* Both leave the crosshair lines and the cursor unchanged.
UnknownPlotTypeRaisesOverView ==
    [][ (IsMouseMoved /\ plotType \notin {"1d", "2d"}) =>
            /\ raised' = (IF isMouseOverView' THEN "ValueError: plotType unknown"
                          ELSE NoError)
            /\ labelCoordinate' = (IF isMouseOverView' THEN labelCoordinate ELSE "")
            /\ UNCHANGED <<vLine, hLine, cursor>> ]_vars

UnknownPlotTypeWitness ==
    /\ plotType = "3d"
    /\ raised = "ValueError: plotType unknown"
    /\ displayCrossHair
    /\ overView
    /\ PointerOverRegion
    /\ ~CrossHairExists

(***************************************************************************)
(* C13.  When config['crossHairLineStyle'] is none of the four known       *)
(* styles, every call of crossHair without remove while no crosshair       *)
(* exists raises and leaves no partial state: no line is added to the      *)
(* plot, vLine and hLine stay None, the cursor is not blanked.  Updating   *)
(* or removing an existing crosshair never raises this error.              *)
(***************************************************************************)
\* the step is a pointer-move in which mouseMoved calls crossHair() (line 120)
\* while no crosshair exists
CrossHairCalledToShow ==
    /\ IsMouseMoved
    /\ isMouseOverView'
    /\ setMouseCoordinateError(mousePos') = NoError
    /\ displayCrossHair
    /\ vLine = NoLine

NoPartialCrossHair ==
    /\ raised' = "ValueError: crossHairLineStyle"
    /\ items' = items
    /\ vLine' = NoLine
    /\ hLine' = NoLine
    /\ cursor' # "BlankCursor"

UnknownStyleAlwaysRaises ==
    [][ /\ (crossHairLineStyle \notin LineStyleNames /\ CrossHairCalledToShow)
            => NoPartialCrossHair
        /\ raised' = "ValueError: crossHairLineStyle" => vLine = NoLine ]_vars

\* C13, amended.  The call raises unless the plot is 2d and an overlay line is
\* hovered: then crossHair takes the call for a removal and returns, leaving
\* the same state.  The error is raised by such calls only.
UnknownStyleRaisesAtCreation ==
    [][ /\ (crossHairLineStyle \notin LineStyleNames /\ CrossHairCalledToShow)
            => IF plotType = "2d" /\ Hovering
               THEN /\ raised' = NoError
                    /\ items' = items
                    /\ vLine' = NoLine
                    /\ hLine' = NoLine
                    /\ cursor' # "BlankCursor"
               ELSE NoPartialCrossHair
        /\ raised' = "ValueError: crossHairLineStyle"
            => /\ CrossHairCalledToShow
               /\ crossHairLineStyle \notin LineStyleNames
               /\ ~(plotType = "2d" /\ Hovering) ]_vars

UnknownStyleWitness ==
    /\ raised = "ValueError: crossHairLineStyle"
    /\ crossHairLineStyle = "wavy"
    /\ cursor = "PointingHandCursor"
    /\ displayCrossHair
    /\ ~CrossHairExists
    /\ items = <<>>

(***************************************************************************)
(* C14.  If the accessor call faults, the fault leaves run(): nothing is   *)
(* tried again, no addRows and no updateDatabase is ever emitted, and the  *)
(* only status message emitted is 'Gathered runs infos database'.          *)
(***************************************************************************)
AccessorFaultPropagates ==
    db.kind = "fault" =>
        /\ pc \in {"l71", "l72", "raised"}
        /\ runInfos = Unset
        /\ Len(Batches) = 0
        /\ Len(ScanCompletes) = 0
        /\ pc = "raised" =>
            /\ StatusMessages = <<SetStatusBarMessage("Gathered runs infos database", FALSE)>>
            /\ ~ENABLED WorkerNext

AccessorFaultWitness ==
    /\ pc = "raised"
    /\ db.kind = "fault"
    /\ nbProgress = 1
    /\ Len(signals) = 2

(***************************************************************************)
(* C15.  The crosshair is never duplicated: vLine is None exactly when     *)
(* hLine is None, the crosshair lines on the plot are exactly the owned    *)
(* ones (none without a crosshair, one vertical and one horizontal line    *)
(* with one), a line is added only in a step that starts without a         *)
(* crosshair and removed only in a step that starts with one.              *)
(***************************************************************************)
CrossHairNeverDuplicated ==
    /\ [](/\ vLine = NoLine <=> hLine = NoLine
          /\ items = (IF vLine = NoLine THEN <<>> ELSE <<90, 0>>)
          /\ vLine # NoLine => vLine[1].angle = 90 /\ hLine[1].angle = 0)
    /\ [][ /\ Len(items') > Len(items) => ~CrossHairExists /\ CrossHairExists'
           /\ Len(items') < Len(items) => CrossHairExists /\ ~CrossHairExists' ]_vars

CrossHairMovedWitness ==
    /\ CrossHairExists
    /\ items = <<90, 0>>
    /\ vLine[1].pos = 2
    /\ hLine[1].pos = 1
    /\ mousePos = <<2, 1>>

CursorBlankWhileCrossHair ==
    [][ /\ (IsMouseMoved /\ CrossHairExists') => cursor' = "BlankCursor"
        /\ (CrossHairExists /\ ~CrossHairExists') => cursor' = "ArrowCursor" ]_vars

(***************************************************************************)
(* C18.  On a 2d plot, after a pointer move over the view the z value in   *)
(* the coordinate label is z[n, m], n being the index of the x sample      *)
(* nearest to the pointer's x and m the index of the y sample nearest to   *)
(* the pointer's y, the lowest index on ties.  With the axes and the       *)
(* pointer of the example scaled by ten, samples 0, 10, 20 and the pointer *)
(* at (9, 22) give the indices (1, 2).                                     *)
(***************************************************************************)
Nearest(a, v) ==
    {i \in 0..(Len(a) - 1) : \A j \in 0..(Len(a) - 1) : Abs(a[i + 1] - v) <= Abs(a[j + 1] - v)}

LowestNearest(a, v) == CHOOSE i \in Nearest(a, v) : \A j \in Nearest(a, v) : i <= j

LabelShowsNearestZ ==
    [][ (IsMouseMoved /\ plotType = "2d" /\ isMouseOverView') =>
            LET n == LowestNearest(dataX, mousePos'[1])
                m == LowestNearest(dataY, mousePos'[2])
                z == dataZ[n + 1][m + 1]
            IN  /\ labelCoordinate' =
                        "x: " \o Space(mousePos'[1]) \o FormatE(mousePos'[1]) \o
                        "<br/>y: " \o Space(mousePos'[2]) \o FormatE(mousePos'[2]) \o
                        "<br/>z: " \o Space(z) \o FormatE(z)
                /\ ArgMin(<<0, 10, 20>>, 9) = 1
                /\ ArgMin(<<0, 10, 20>>, 22) = 2 ]_vars

LabelTieWitness ==
    /\ plotType = "2d"
    /\ overView
    /\ mousePos = <<1, 1>>
    /\ Cardinality(Nearest(dataX, 1)) = 2
    /\ labelCoordinate = "x: &nbsp;1<br/>y: &nbsp;1<br/>z: -3"

(***************************************************************************)
(* C19.  Every addRows signal the worker emits is non-empty and            *)
(* well-formed: its eight lists have the same length, that length is at    *)
(* least 1, and the signal carries the total number of runs K and the      *)
(* progress bar key the caller gave.                                       *)
(***************************************************************************)
BatchesWellFormed ==
    \A i \in 1..Len(Batches) :
        LET b == Batches[i]
        IN  /\ b.ref \in DOMAIN lists
            /\ DOMAIN lists[b.ref] = Fields
            /\ \A f \in Fields : Len(lists[b.ref][f]) = Len(lists[b.ref].runId)
            /\ Len(lists[b.ref].runId) >= 1
            /\ b.n = K
            /\ b.key = progressBarKey

BatchesWellFormedWitness ==
    /\ pc = "done"
    /\ Len(Batches) = 3
    /\ K = 3
    /\ progressBarKey = "pb1"
    /\ \A i \in 1..3 : Len(lists[Batches[i].ref].dim) = 1

(***************************************************************************)
(* C20.  Once a batch has been emitted the worker never appends to or      *)
(* otherwise modifies its eight lists, and never takes the signal back:    *)
(* whatever the receiving thread reads of an emitted batch, at any later   *)
(* moment of the run, is what the batch held when it was emitted.          *)
(***************************************************************************)
EmittedBatchesFrozen ==
    [][ \A i \in 1..Len(signals) :
            /\ i \in 1..Len(signals')
            /\ signals'[i] = signals[i]
            /\ signals[i].signal = "addRows" =>
                    /\ signals[i].ref \in DOMAIN lists'
                    /\ lists'[signals[i].ref] = lists[signals[i].ref] ]_vars

EmittedBatchThenAppendWitness ==
    /\ pc = "l109"
    /\ Len(Batches) = 1
    /\ cur # Batches[1].ref
    /\ Len(lists[Batches[1].ref].runId) = 2
    /\ Len(lists[cur].runId) = 1

====
